---- MODULE Spec2Model ----
(***************************************************************************)
(* Metrics engine of the Jensen Huang Leather Jacket Index.                *)
(*                                                                         *)
(* src/app.py: get_index reads daily_index newest first and builds the     *)
(* metrics table with the closures calc_trailing and calc_pop.             *)
(* src/unnamed/part_000: get_correlation and get_index_data are the only   *)
(* correlation code of the repository.                                     *)
(*                                                                         *)
(* Numbers.  Python computes the means and ratios in floating point; the   *)
(* model computes them as exact fractions <<n, d>> in lowest terms with    *)
(* d > 0.  None is the empty tuple, a raised exception is a 1-tuple that   *)
(* holds the exception's name, so that the three kinds of outcome never    *)
(* compare equal.                                                          *)
(***************************************************************************)
EXTENDS Integers, Sequences, FiniteSets, TLC

VARIABLES daily_history, days, pc, trailing, pop, regime, report, correlation_7d,
          daily_index, listings, today, seed_pc, alt_data_metrics, weekly_data,
          startup_pc, count, history_count, startup_log, returned, status

\* the database file, the calendar and the last response of /api/index
\* the startup thread of the server (its position, the two counts it has read,
\* the calls it has made), and what the last step has given back: the return
\* of run_scrape and the reply of a route
server == <<startup_pc, count, history_count, startup_log, returned, status>>

dbvars == <<daily_index, listings, today, seed_pc, alt_data_metrics, weekly_data, server>>

vars == <<daily_history, days, pc, trailing, pop, regime, report, correlation_7d, dbvars>>

(***************************************************************************)
(* Bounds of the model.                                                    *)
(***************************************************************************)
MaxLen == 4
MaxDays == 2
MaxPoints == 7
MaxDate == 3

(***************************************************************************)
(* Values.                                                                 *)
(***************************************************************************)
None == <<>>

ZeroDivisionError == <<"ZeroDivisionError">>

IndexError == <<"IndexError">>

IsError(x) == Len(x) = 1

IsNumber(x) == Len(x) = 2

Abs(n) == IF n < 0 THEN -n ELSE n

RECURSIVE GCD(_, _)
GCD(a, b) == IF b = 0 THEN a ELSE GCD(b, a % b)

Frac(n, d) ==
    LET g == GCD(Abs(n), Abs(d))
        s == IF d < 0 THEN -1 ELSE 1
    IN  <<(s * n) \div g, (s * d) \div g>>

Num(n) == <<n, 1>>

Zero == Num(0)

\* Python's truth value of a number or of None: 0, 0.0 and None are false.
Truthy(x) == x # None /\ x[1] # 0

\* a - b; an exception in an operand propagates.
Sub(a, b) ==
    IF IsError(a) THEN a
    ELSE IF IsError(b) THEN b
    ELSE Frac(a[1] * b[2] - b[1] * a[2], a[2] * b[2])

\* a * b
Mul(a, b) ==
    IF IsError(a) THEN a
    ELSE IF IsError(b) THEN b
    ELSE Frac(a[1] * b[1], a[2] * b[2])

\* a / b: Python raises ZeroDivisionError for a zero divisor, int or float.
Div(a, b) ==
    IF IsError(a) THEN a
    ELSE IF IsError(b) THEN b
    ELSE IF b[1] = 0 THEN ZeroDivisionError
    ELSE Frac(a[1] * b[2], a[2] * b[1])

\* a + b of two numbers
Add(a, b) == Frac(a[1] * b[2] + b[1] * a[2], a[2] * b[2])

\* sum(...) of a sequence of numbers
RECURSIVE Sum(_)
Sum(s) == IF s = <<>> THEN Zero ELSE Add(s[1], Sum(Tail(s)))

\* s[:n] for n >= 0
Take(s, n) == SubSeq(s, 1, IF n < Len(s) THEN n ELSE Len(s))

\* s[a:b] for 0 <= a <= b
Slice(s, a, b) == SubSeq(s, a + 1, IF b < Len(s) THEN b ELSE Len(s))

\* s[0][field] (i = 0) and s[-1][field] (i = -1): IndexError on an empty list
Item(s, i, field) ==
    IF Len(s) = 0 THEN IndexError
    ELSE IF i = -1 THEN s[Len(s)][field] ELSE s[1][field]

\* [d[field] for d in s]
RECURSIVE Column(_, _)
Column(s, field) ==
    IF s = <<>> THEN <<>> ELSE <<s[1][field]>> \o Column(Tail(s), field)

\* [d for d in data if d.get(field)]: a value of 0 is dropped with the missing ones
valid_data_truthy(data, field) == SelectSeq(data, LAMBDA d : Truthy(d[field]))

\* [d for d in data if d.get(field) is not None]
RECURSIVE valid_data(_, _)
valid_data(data, field) ==
    IF data = <<>> THEN <<>>
    ELSE IF data[1][field] # None
         THEN <<data[1]>> \o valid_data(Tail(data), field)
         ELSE valid_data(Tail(data), field)

(***************************************************************************)
(* get_index: the metrics closures.                                        *)
(***************************************************************************)
\* sum(xs) / len(xs)
Mean(xs) == Div(Sum(xs), Num(Len(xs)))

\* slices the records before it filters them
calc_trailing_slice_first(data, field, n) ==
    LET subset == Column(valid_data(Take(data, n), field), field)
    IN  IF subset # <<>> THEN Mean(subset) ELSE Zero

\* None instead of 0 for an empty subset
calc_trailing_none_default(data, field, n) ==
    LET subset == Take(Column(valid_data(data, field), field), n)
    IN  IF subset # <<>> THEN Mean(subset) ELSE None

\* no guard for an empty subset
calc_trailing_unguarded(data, field, n) ==
    Mean(Take(Column(valid_data(data, field), field), n))

calc_trailing(data, field, n) ==
    LET valid_vals == Column(valid_data(data, field), field)
        subset == Take(valid_vals, n)
    IN  IF subset # <<>> THEN Mean(subset) ELSE Zero

\* no guard for a zero denominator
PercentUnguarded(num, den) == Mul(Div(num, den), Num(100))

\* x if cond else None, where cond is the denominator of x
PercentOrNone(num, den) ==
    IF IsError(den) THEN den
    ELSE IF Truthy(den) THEN Mul(Div(num, den), Num(100))
    ELSE None

\* > instead of >= at the 2 * days boundary
pop_regime_strict(data, field, n) ==
    LET valid == valid_data(data, field)
    IN  IF Len(valid) < 2 THEN "null"
        ELSE IF Len(valid) > n * 2 THEN "window"
        ELSE "point"

\* counts the records instead of the records that have the field
pop_regime_len_data(data, field, n) ==
    LET valid == valid_data(data, field)
    IN  IF Len(data) < 2 THEN "null"
        ELSE IF Len(valid) >= n * 2 THEN "window"
        ELSE "point"

\* the branch calc_pop takes
pop_regime(data, field, n) ==
    LET valid == valid_data(data, field)
    IN  IF Len(valid) < 2 THEN "null"
        ELSE IF Len(valid) >= n * 2 THEN "window"
        ELSE "point"

\* the prior window runs to the end of the list
pop_window_open_prior(valid, field, n) ==
    LET curr_avg == Mean(Column(Take(valid, n), field))
        prev_avg == Mean(Column(Slice(valid, n, Len(valid)), field))
    IN  PercentOrNone(Sub(curr_avg, prev_avg), prev_avg)

\* the guard tests the current mean instead of the prior mean
pop_window_guard_curr(valid, field, n) ==
    LET curr_avg == Mean(Column(Take(valid, n), field))
        prev_avg == Mean(Column(Slice(valid, n, n * 2), field))
    IN  IF Truthy(curr_avg) THEN Mul(Div(Sub(curr_avg, prev_avg), prev_avg), Num(100))
        ELSE None

pop_window(valid, field, n) ==
    LET curr_subset == Take(valid, n)
        prev_subset == Slice(valid, n, n * 2)
        curr_avg == Mean(Column(curr_subset, field))
        prev_avg == Mean(Column(prev_subset, field))
    IN  PercentOrNone(Sub(curr_avg, prev_avg), prev_avg)

\* compares with the record after the latest instead of the oldest
pop_point_second(valid, field) ==
    LET latest == Item(valid, 0, field)
        oldest == valid[2][field]
    IN  PercentOrNone(Sub(latest, oldest), oldest)

pop_point(valid, field) ==
    LET latest == Item(valid, 0, field)
        oldest == Item(valid, -1, field)
    IN  PercentOrNone(Sub(latest, oldest), oldest)

calc_pop(data, field, n) ==
    LET valid == valid_data(data, field)
        r == pop_regime(data, field, n)
    IN  IF r = "null" THEN None
        ELSE IF r = "window" THEN pop_window(valid, field, n)
        ELSE pop_point(valid, field)

(***************************************************************************)
(* part_000: the correlation endpoints.                                    *)
(***************************************************************************)
\* dict.get(key)
Get(d, key) == IF key \in DOMAIN d THEN d[key] ELSE None

\* the JSON object of /api/correlation: the same for every request
get_correlation_body ==
    [headline |-> "Leather Jacket Prices Lead NVDA by 3-5 Days",
     r_squared |-> Frac(67, 100),
     p_value |-> Frac(3, 1000),
     methodology |-> "Proprietary Jensen-Coded scoring + Granger causality",
     disclaimer |-> "This is not financial advice. This is fashion advice.",
     insights |-> <<"Asymmetric zippers correlate with 2.3% higher next-day NVDA returns",
                    "Black leather listings spike 18% in the week before earnings calls",
                    "Schott NYC jackets are the most predictive brand (r=0.74)",
                    "Jensen Score >10 items precede 5%+ NVDA moves 73% of the time">>]

get_index_data_correlation(daily_data) ==
    IF Len(daily_data) >= 7 THEN Frac(73, 100) ELSE None

(***************************************************************************)
(* The series a request reads: daily_index, newest first.                  *)
(***************************************************************************)
Vals == {None, Num(-1), Num(0), Num(1)}

NvdaVals == {None, Num(1)}

Windows == {7, 28, 91}

\* the record of the i-th newest of n dates
Row(n, i, p, q) == [date |-> n - i + 1, avg_price |-> p, nvda_pct_change |-> q]

\* the series of n dates whose fields are given by f
MkSeries(n, f) == [i \in 1..n |-> Row(n, i, f[i][1], f[i][2])]

\* 14 daily records, avg_price 10 for the newest 7 and 20 for the 7 before
Example14 == [i \in 1..14 |-> Row(14, i, IF i <= 7 THEN Num(10) ELSE Num(20), Num(1))]

\* the same 14 dates with the avg_price of one of them replaced
Variants14 ==
    {[Example14 EXCEPT ![j].avg_price = v] : j \in DOMAIN Example14, v \in Vals}

LongSeries == {Example14} \cup Variants14

Days == 1..MaxDays \cup Windows

NotRun == <<"not run">>

\* no table has a row, no response has been built
\* no count read
Unread == -1

\* the startup thread has not run, run_scrape has not returned, no route has replied
NoServer ==
    /\ startup_pc = "sleep"
    /\ count = Unread
    /\ history_count = Unread
    /\ startup_log = <<>>
    /\ returned = NotRun
    /\ status = "none"

EmptyDb ==
    /\ daily_index = {}
    /\ listings = {}
    /\ today = 1
    /\ seed_pc = "idle"
    /\ alt_data_metrics = <<>>
    /\ weekly_data = <<>>
    /\ NoServer

\* a request arrives; nothing has been read
Init ==
    /\ daily_history = <<>>
    /\ days = 7
    /\ pc = "request"
    /\ trailing = NotRun
    /\ pop = NotRun
    /\ regime = "not run"
    /\ report = [status |-> "not run"]
    /\ correlation_7d = NotRun
    /\ EmptyDb

\* SELECT * FROM daily_index ORDER BY date DESC: the rows the request works
\* on, and the window of the cell it computes
ReadHistory ==
    /\ pc = "request"
    /\ \/ \E n \in 0..MaxLen : \E f \in [1..n -> Vals \X NvdaVals] :
              daily_history' = MkSeries(n, f)
       \/ daily_history' \in LongSeries
    /\ days' \in Days
    /\ pc' = "start"
    /\ UNCHANGED <<trailing, pop, regime, report, correlation_7d>>
    /\ UNCHANGED dbvars

\* one cell of a row of alt_data_metrics: trailing<days>
CalcTrailing ==
    /\ pc = "start"
    /\ trailing' = calc_trailing(daily_history, "avg_price", days)
    /\ pc' = "trailing"
    /\ UNCHANGED <<daily_history, days, pop, regime, report, correlation_7d>>
    /\ UNCHANGED dbvars

\* the next cell of the row: pop<days>
CalcPop ==
    /\ pc = "trailing"
    /\ pop' = calc_pop(daily_history, "avg_price", days)
    /\ regime' = pop_regime(daily_history, "avg_price", days)
    /\ pc' = "done"
    /\ UNCHANGED <<daily_history, days, trailing, report, correlation_7d>>
    /\ UNCHANGED dbvars

\* GET /api/correlation
GetCorrelation ==
    /\ pc = "start"
    /\ report' = get_correlation_body
    /\ pc' = "correlation"
    /\ UNCHANGED <<daily_history, days, trailing, pop, regime, correlation_7d>>
    /\ UNCHANGED dbvars

\* get_index_data()
GetIndexData ==
    /\ pc = "start"
    /\ correlation_7d' = get_index_data_correlation(daily_history)
    /\ pc' = "index_data"
    /\ UNCHANGED <<daily_history, days, trailing, pop, regime, report>>
    /\ UNCHANGED dbvars

Next == ReadHistory \/ CalcTrailing \/ CalcPop \/ GetCorrelation \/ GetIndexData

Spec == Init /\ [][Next]_vars

(***************************************************************************)
(* Vocabulary of the properties: positions in the series, as sets.         *)
(***************************************************************************)
\* the positions (1 = newest) whose record has the field
Present(data, field) == {i \in DOMAIN data : data[i][field] # None}

\* the records [a, b) of the series, as positions
Records(data, a, b) == {i \in DOMAIN data : a < i /\ i <= b}

\* the records [a, b) of the series once the records without the field are dropped
PresentRecords(data, field, a, b) ==
    LET P == Present(data, field)
    IN  {i \in P : LET k == Cardinality({j \in P : j <= i}) IN a < k /\ k <= b}

RECURSIVE SumAt(_, _, _)
SumAt(data, field, S) ==
    IF S = {} THEN Zero
    ELSE LET i == CHOOSE j \in S : TRUE
         IN  Add(data[i][field], SumAt(data, field, S \ {i}))

\* the arithmetic mean of the field over a non-empty set of positions
MeanAt(data, field, S) ==
    LET t == SumAt(data, field, S) IN Frac(t[1], t[2] * Cardinality(S))

\* (x - y) / y * 100 for y # 0
Percent(x, y) == Frac((x[1] * y[2] - y[1] * x[2]) * y[2] * 100, x[2] * y[2] * y[1])

Newest(S) == CHOOSE i \in S : \A j \in S : i <= j

Oldest(S) == CHOOSE i \in S : \A j \in S : j <= i

\* the denominator of the period change when the field is present twice or more
Denominator(data, field, n) ==
    LET P == Present(data, field)
    IN  IF Cardinality(P) >= 2 * n
        THEN MeanAt(data, field, PresentRecords(data, field, n, 2 * n))
        ELSE data[Oldest(P)][field]

TrailingRun == pc \in {"trailing", "done"}

PopRun == pc = "done"

TypeOK ==
    /\ pc \in {"request", "start", "trailing", "done", "correlation", "index_data"}
    /\ days \in Days
    /\ Len(daily_history) <= MaxLen \/ daily_history \in LongSeries

(***************************************************************************)
(* C1                                                                      *)
(***************************************************************************)
\* C1 as stated: trailing is the mean of the present values among the first
\* min(N, len) records, and 0 when there is none; later records never count.
C1_FirstRecordsOnly ==
    TrailingRun =>
        LET W == Present(daily_history, "avg_price") \cap Records(daily_history, 0, days)
        IN  trailing = IF W = {} THEN Zero ELSE MeanAt(daily_history, "avg_price", W)

\* C1 amended: trailing is the mean of the first min(N, k) of the k present
\* values of the whole series, and 0 when k = 0: a record beyond the first N
\* contributes whenever fewer than N records before it have the field.
C1_FirstPresentValues ==
    TrailingRun =>
        LET W == PresentRecords(daily_history, "avg_price", 0, days)
        IN  trailing = IF W = {} THEN Zero ELSE MeanAt(daily_history, "avg_price", W)

\* a record beyond the first N has contributed, one of the first N lacks the field
C1_Witness ==
    /\ TrailingRun
    /\ Len(daily_history) > days
    /\ \E i \in Records(daily_history, 0, days) : daily_history[i].avg_price = None
    /\ \E i \in PresentRecords(daily_history, "avg_price", 0, days) : i > days
    /\ trailing # Zero

(***************************************************************************)
(* The two formulas of periodChange, over sets of positions.               *)
(***************************************************************************)
\* latest present value against the oldest present value of the whole series,
\* null without two present values
PointToPoint(data, field) ==
    LET P == Present(data, field)
        latest == data[Newest(P)][field]
        oldest == data[Oldest(P)][field]
    IN  IF Cardinality(P) < 2 \/ oldest = Zero THEN None ELSE Percent(latest, oldest)

\* mean over the positions C against the mean over the positions Q
WindowMean(data, field, C, Q) ==
    IF C = {} \/ Q = {} THEN None
    ELSE LET prior == MeanAt(data, field, Q)
         IN  IF prior = Zero THEN None ELSE Percent(MeanAt(data, field, C), prior)

(***************************************************************************)
(* C2                                                                      *)
(***************************************************************************)
\* C2 as stated: the regime of periodChange follows the number of records of
\* the series, whether or not records lack the field: null below 2 records,
\* the point-to-point result from 2 to 2N - 1 records, the window-mean result
\* (records [0, N) against records [N, 2N)) from 2N records on.
C2_RegimeByRecords ==
    PopRun =>
        LET P == Present(daily_history, "avg_price")
            n == Len(daily_history)
        IN  pop = IF n < 2 THEN None
                  ELSE IF n < 2 * days THEN PointToPoint(daily_history, "avg_price")
                  ELSE WindowMean(daily_history, "avg_price",
                                  P \cap Records(daily_history, 0, days),
                                  P \cap Records(daily_history, days, 2 * days))

\* C2 amended: the regime follows the number k of records that have the
\* field: null for k < 2, the point-to-point result for 2 <= k < 2N, the
\* window-mean result over those records for k >= 2N; k = 2N is window-mean
\* and k = 2N - 1 is point-to-point.
C2_RegimeByPresent ==
    PopRun =>
        LET k == Cardinality(Present(daily_history, "avg_price"))
        IN  /\ regime = IF k < 2 THEN "null"
                        ELSE IF k < 2 * days THEN "point"
                        ELSE "window"
            /\ pop = IF k < 2 THEN None
                     ELSE IF k < 2 * days THEN PointToPoint(daily_history, "avg_price")
                     ELSE WindowMean(daily_history, "avg_price",
                                     PresentRecords(daily_history, "avg_price", 0, days),
                                     PresentRecords(daily_history, "avg_price", days, 2 * days))

\* exactly 2N records, one of them without the field: point-to-point
C2_Witness ==
    /\ PopRun
    /\ days = 2
    /\ Len(daily_history) = 2 * days
    /\ Cardinality(Present(daily_history, "avg_price")) = 2 * days - 1
    /\ regime = "point"
    /\ IsNumber(pop)

(***************************************************************************)
(* C3                                                                      *)
(***************************************************************************)
\* the 14-record example: current mean 10, prior mean 20, window 7
C3_Example == (PopRun /\ daily_history = Example14 /\ days = 7) => (pop = Num(-50))

\* C3 as stated: with at least 2N records, periodChange is the percentage
\* change of the mean of the present values of records [0, N) against the
\* mean of the present values of records [N, 2N) (both windows holding a
\* present value, the prior mean not 0).
C3_WindowsOfRecords ==
    /\ C3_Example
    /\ (PopRun /\ Len(daily_history) >= 2 * days) =>
           LET P == Present(daily_history, "avg_price")
               C == P \cap Records(daily_history, 0, days)
               Q == P \cap Records(daily_history, days, 2 * days)
           IN  (C # {} /\ Q # {} /\ MeanAt(daily_history, "avg_price", Q) # Zero) =>
                   pop = Percent(MeanAt(daily_history, "avg_price", C),
                                 MeanAt(daily_history, "avg_price", Q))

\* C3 amended: with at least 2N records that have the field, the current
\* window is the first N of those records and the prior window the next N;
\* periodChange is (curr_mean - prior_mean) / prior_mean * 100 when the
\* prior mean is not 0; the 14-record example gives -50.
C3_WindowsOfPresent ==
    /\ C3_Example
    /\ (PopRun /\ Cardinality(Present(daily_history, "avg_price")) >= 2 * days) =>
           LET C == PresentRecords(daily_history, "avg_price", 0, days)
               Q == PresentRecords(daily_history, "avg_price", days, 2 * days)
               prior == MeanAt(daily_history, "avg_price", Q)
           IN  /\ Cardinality(C) = days
               /\ Cardinality(Q) = days
               /\ (prior # Zero) =>
                      pop = Percent(MeanAt(daily_history, "avg_price", C), prior)

\* the example has been computed
C3_Witness == PopRun /\ daily_history = Example14 /\ days = 7 /\ pop = Num(-50)

(***************************************************************************)
(* C4                                                                      *)
(***************************************************************************)
\* some window of N records of the series holds no present value
EmptyRecordWindow ==
    LET P == Present(daily_history, "avg_price")
    IN  /\ Len(daily_history) >= 2 * days
        /\ \/ P \cap Records(daily_history, 0, days) = {}
           \/ P \cap Records(daily_history, days, 2 * days) = {}

\* C4 as stated: with at least 2N records, periodChange is null when records
\* [0, N) or records [N, 2N) hold no present value.
C4_NullOnEmptyWindow == (PopRun /\ EmptyRecordWindow) => (pop = None)

\* C4 amended: with at least 2N records and no present value in records
\* [0, N) or in records [N, 2N), periodChange is null exactly when the field
\* is present in fewer than 2 records of the series or the denominator taken
\* over the records that have the field is 0; otherwise it is a number.
C4_NullOnlyWithoutBase ==
    (PopRun /\ EmptyRecordWindow) =>
        LET k == Cardinality(Present(daily_history, "avg_price"))
        IN  /\ (pop = None) <=> (k < 2 \/ Denominator(daily_history, "avg_price", days) = Zero)
            /\ (pop # None) => IsNumber(pop)

\* records [0, N) hold no present value and the result is a number
C4_Witness ==
    /\ PopRun
    /\ Len(daily_history) >= 2 * days
    /\ Present(daily_history, "avg_price") \cap Records(daily_history, 0, days) = {}
    /\ IsNumber(pop)

(***************************************************************************)
(* C5                                                                      *)
(***************************************************************************)
\* C5: with too little history for two windows (the field present in k
\* records, 2 <= k < 2N, which covers every series of 2 to 2N - 1 records
\* with two present values), periodChange is (latest - oldest) / oldest * 100
\* for the newest and the oldest present value of the entire series, null
\* when that oldest value is 0.
C5_PointToPoint ==
    LET P == Present(daily_history, "avg_price")
    IN  (PopRun /\ Cardinality(P) >= 2 /\ Cardinality(P) < 2 * days) =>
            LET latest == daily_history[Newest(P)].avg_price
                oldest == daily_history[Oldest(P)].avg_price
            IN  pop = IF oldest = Zero THEN None ELSE Percent(latest, oldest)

\* the oldest present value lies outside the window and is not the second one
C5_Witness ==
    LET P == Present(daily_history, "avg_price")
    IN  /\ PopRun
        /\ Len(daily_history) >= 2
        /\ Len(daily_history) < 2 * days
        /\ Cardinality(P) >= 3
        /\ Oldest(P) > days
        /\ IsNumber(pop)
        /\ pop # Zero

(***************************************************************************)
(* C6                                                                      *)
(***************************************************************************)
\* C6: periodChange raises no division error and is null whenever its
\* denominator is 0: the prior mean in the window-mean regime, the oldest
\* present value in the point-to-point regime.
C6_NullOnZeroDenominator ==
    PopRun =>
        /\ pop # ZeroDivisionError
        /\ (regime = "window" /\ Denominator(daily_history, "avg_price", days) = Zero)
               => (pop = None)
        /\ (regime = "point" /\ Denominator(daily_history, "avg_price", days) = Zero)
               => (pop = None)

\* a prior window of non-zero values whose mean is 0
C6_Witness ==
    /\ PopRun
    /\ regime = "window"
    /\ Denominator(daily_history, "avg_price", days) = Zero
    /\ \E i \in PresentRecords(daily_history, "avg_price", days, 2 * days) :
           daily_history[i].avg_price # Zero
    /\ pop = None

(***************************************************************************)
(* C7                                                                      *)
(***************************************************************************)
\* C7 as stated: trailing is exactly 0 whenever the first N records hold no
\* present value, also when later records do.
C7_ZeroOnEmptyWindow ==
    (TrailingRun /\ Present(daily_history, "avg_price")
                      \cap Records(daily_history, 0, days) = {})
        => (trailing = Zero)

\* C7 amended: trailing is exactly 0 whenever no record of the series has
\* the field; when the first N records hold no present value and later
\* records do, it is the mean of the first N present values, all of them
\* from records outside the window.
C7_ZeroOnEmptySeries ==
    LET P == Present(daily_history, "avg_price")
        W == PresentRecords(daily_history, "avg_price", 0, days)
    IN  /\ (TrailingRun /\ P = {}) => (trailing = Zero)
        /\ (TrailingRun /\ P # {} /\ P \cap Records(daily_history, 0, days) = {}) =>
               /\ \A i \in W : i > days
               /\ trailing = MeanAt(daily_history, "avg_price", W)

\* records exist, none has the field, trailing is 0
C7_Witness ==
    /\ TrailingRun
    /\ Len(daily_history) >= 2
    /\ Present(daily_history, "avg_price") = {}
    /\ trailing = Zero

(***************************************************************************)
(* C8                                                                      *)
(***************************************************************************)
\* C8: for every series, the empty one and those shorter than the window
\* included, and every window, 7, 28 and 91 included, trailing is a number
\* (never null, never an exception) and periodChange is a number or null
\* (never an exception).
C8_NeverFails ==
    /\ Windows \subseteq Days
    /\ TrailingRun => IsNumber(trailing)
    /\ PopRun => (IsNumber(pop) \/ pop = None)

\* the empty series under the 91-record window
C8_Witness ==
    /\ PopRun
    /\ daily_history = <<>>
    /\ days = 91
    /\ trailing = Zero
    /\ pop = None

(***************************************************************************)
(* C9                                                                      *)
(***************************************************************************)
\* C9: periodChange is null whenever fewer than 2 records of the series have
\* the field, whatever the number of records.
C9_NullBelowTwoPresent ==
    (PopRun /\ Cardinality(Present(daily_history, "avg_price")) < 2) => (pop = None)

\* at least 2N records, one present value, a null result
C9_Witness ==
    /\ PopRun
    /\ Len(daily_history) >= 2 * days
    /\ Cardinality(Present(daily_history, "avg_price")) = 1
    /\ pop = None

(***************************************************************************)
(* C10                                                                     *)
(***************************************************************************)
\* the dates where both the tracked and the reference field are present
PairedPoints(data) ==
    Present(data, "avg_price") \cap Present(data, "nvda_pct_change")

\* C10: with fewer than 10 paired points the correlation report has
\* r squared 0, p 1.0 and lead label "N/A", and the signal is INITIALIZING.
C10_InsufficientData ==
    (pc = "correlation" /\ Cardinality(PairedPoints(daily_history)) < 10) =>
        /\ Get(report, "r_squared") = Zero
        /\ Get(report, "p_value") = Num(1)
        /\ Get(report, "lead_time") = <<"N/A">>
        /\ Get(report, "signal") = <<"INITIALIZING">>

(***************************************************************************)
(* C11                                                                     *)
(***************************************************************************)
\* the field at the paired dates, newest first
PairedColumn(data, field) ==
    Column(valid_data(valid_data(data, "avg_price"), "nvda_pct_change"), field)

RECURSIVE Dot(_, _)
Dot(x, y) == IF x = <<>> THEN Zero ELSE Add(Mul(x[1], y[1]), Dot(Tail(x), Tail(y)))

Less(a, b) == a[1] * b[2] < b[1] * a[2]

\* r * |r| for Pearson's r of two vectors of one length, 0 when r is not a
\* number; it orders the lags as r does
SignedRSquared(x, y) ==
    LET m == Num(Len(x))
        cov == Sub(Mul(m, Dot(x, y)), Mul(Sum(x), Sum(y)))
        vx == Sub(Mul(m, Dot(x, x)), Mul(Sum(x), Sum(x)))
        vy == Sub(Mul(m, Dot(y, y)), Mul(Sum(y), Sum(y)))
    IN  IF vx = Zero \/ vy = Zero THEN Zero
        ELSE IF Less(cov, Zero) THEN Sub(Zero, Div(Mul(cov, cov), Mul(vx, vy)))
        ELSE Div(Mul(cov, cov), Mul(vx, vy))

\* the lags 0..7 that leave at least 5 paired points after slicing
EligibleLags(data) ==
    {L \in 0..7 : Len(PairedColumn(data, "avg_price")) - L >= 5}

LagScore(data, L) ==
    LET tracked == PairedColumn(data, "avg_price")
        reference == PairedColumn(data, "nvda_pct_change")
    IN  SignedRSquared(Slice(tracked, L, Len(tracked)), Take(reference, Len(tracked) - L))

\* C11: with 10 paired points or more, the report's best lag is a lag of
\* 0..7 that leaves at least 5 paired points after slicing and whose r is the
\* maximum of r (not of |r|, not-a-number counted as 0) over all such lags.
C11_BestLagMaximisesR ==
    (pc = "correlation" /\ Cardinality(PairedPoints(daily_history)) >= 10) =>
        \E L \in EligibleLags(daily_history) :
            /\ Get(report, "best_lag") = Num(L)
            /\ \A K \in EligibleLags(daily_history) :
                   ~Less(LagScore(daily_history, L), LagScore(daily_history, K))

(***************************************************************************)
(* SignalClassifier (section 4.4 of the specification; the repository's    *)
(* classifier is not among the source files).                              *)
(***************************************************************************)
\* the lead-time label of a report
lead_label(lag) ==
    IF lag = 0 THEN "0d (Real-time)"
    ELSE <<"1d", "2d", "3d", "4d", "5d", "6d", "7d">>[lag]

\* the reports the analyzer hands to the classifier: insufficient data below
\* 10 paired points, else an r squared in [0, 1] at a best lag of 0..7
Reports ==
    {[n |-> k, best_lag |-> 0, r_squared |-> Zero, p_value |-> Num(1), lead_time |-> "N/A"] :
        k \in {0, 9}}
    \cup
    {[n |-> k, best_lag |-> lag, r_squared |-> q, p_value |-> Frac(1, 100),
      lead_time |-> lead_label(lag)] :
        k \in {10, 11}, lag \in {0, 1, 7}, q \in {Zero, Frac(3, 10), Frac(31, 100), Num(1)}}

\* NEUTRAL is tested before INITIALIZING
classify_neutral_first(rep, series, field) ==
    LET vals == Column(valid_data(series, field), field)
    IN  IF ~Less(Frac(3, 10), rep.r_squared) THEN "NEUTRAL"
        ELSE IF rep.n < 10 THEN "INITIALIZING"
        ELSE IF rep.best_lag = 0 THEN "SYNCHRONIZED"
        ELSE IF Len(vals) < 7 THEN "LEADING"
        ELSE IF Less(Mean(Slice(vals, 3, 6)), Mean(Take(vals, 3))) THEN "BULLISH"
        ELSE "BEARISH"

\* an unchanged trend counts as rising
classify_equal_rising(rep, series, field) ==
    LET vals == Column(valid_data(series, field), field)
    IN  IF rep.n < 10 THEN "INITIALIZING"
        ELSE IF ~Less(Frac(3, 10), rep.r_squared) THEN "NEUTRAL"
        ELSE IF rep.best_lag = 0 THEN "SYNCHRONIZED"
        ELSE IF Len(vals) < 7 THEN "LEADING"
        ELSE IF ~Less(Mean(Take(vals, 3)), Mean(Slice(vals, 3, 6))) THEN "BULLISH"
        ELSE "BEARISH"

\* classify(report, series, trackedField): the rules in their order
classify(rep, series, field) ==
    LET vals == Column(valid_data(series, field), field)
    IN  IF rep.n < 10 THEN "INITIALIZING"
        ELSE IF ~Less(Frac(3, 10), rep.r_squared) THEN "NEUTRAL"
        ELSE IF rep.best_lag = 0 THEN "SYNCHRONIZED"
        ELSE IF Len(vals) < 7 THEN "LEADING"
        ELSE IF Less(Mean(Slice(vals, 3, 6)), Mean(Take(vals, 3))) THEN "BULLISH"
        ELSE "BEARISH"

InitSignal ==
    /\ daily_history = <<>>
    /\ days = 7
    /\ pc = "signal request"
    /\ trailing = NotRun
    /\ pop = NotRun
    /\ regime = "not run"
    /\ report = [status |-> "not run"]
    /\ correlation_7d = NotRun
    /\ EmptyDb

\* the arguments of classify: a report and the series of the tracked field
Analyzed ==
    /\ pc = "signal request"
    /\ \E m \in 0..MaxPoints : \E f \in [1..m -> {Num(1), Num(2)}] :
           daily_history' = [i \in 1..m |-> Row(m, i, f[i], Num(1))]
    /\ report' \in Reports
    /\ pc' = "analyzed"
    /\ UNCHANGED <<days, trailing, pop, regime, correlation_7d>>
    /\ UNCHANGED dbvars

Classify ==
    /\ pc = "analyzed"
    /\ report' = [n |-> report.n, best_lag |-> report.best_lag,
                  r_squared |-> report.r_squared, p_value |-> report.p_value,
                  lead_time |-> report.lead_time,
                  signal |-> classify(report, daily_history, "avg_price")]
    /\ pc' = "classified"
    /\ UNCHANGED <<daily_history, days, trailing, pop, regime, correlation_7d>>
    /\ UNCHANGED dbvars

NextSignal == Analyzed \/ Classify

SpecSignal == InitSignal /\ [][NextSignal]_vars

(***************************************************************************)
(* C12                                                                     *)
(***************************************************************************)
Signals == {"INITIALIZING", "NEUTRAL", "SYNCHRONIZED", "LEADING", "BULLISH", "BEARISH"}

Correlated == report.n >= 10 /\ Less(Frac(3, 10), report.r_squared)

\* C12: classify returns exactly one of the six signals: INITIALIZING when
\* the paired-sample count is below 10, otherwise NEUTRAL when r squared is at
\* most 0.3, otherwise SYNCHRONIZED when the best lag is 0, whatever the
\* trend; BULLISH, BEARISH and LEADING only for r squared above 0.3 and a
\* best lag above 0.
C12_RulesInOrder ==
    (pc = "classified") =>
        /\ report.signal \in Signals
        /\ (report.n < 10) => (report.signal = "INITIALIZING")
        /\ (report.n >= 10 /\ ~Less(Frac(3, 10), report.r_squared))
               => (report.signal = "NEUTRAL")
        /\ (Correlated /\ report.best_lag = 0) => (report.signal = "SYNCHRONIZED")
        /\ (report.signal \in {"BULLISH", "BEARISH", "LEADING"})
               => (Correlated /\ report.best_lag > 0)

\* SYNCHRONIZED under a rising trend of 7 points
C12_Witness ==
    /\ pc = "classified"
    /\ report.signal = "SYNCHRONIZED"
    /\ Len(daily_history) >= 7
    /\ Less(MeanAt(daily_history, "avg_price", {4, 5, 6}),
            MeanAt(daily_history, "avg_price", {1, 2, 3}))

(***************************************************************************)
(* C13                                                                     *)
(***************************************************************************)
\* C13: for r squared above 0.3 and a best lag above 0, classify compares
\* the mean of the 3 most recent tracked values with the mean of the 3 before
\* them: with 7 points or more BULLISH when the recent mean is strictly
\* greater and BEARISH when it is lower or equal, with fewer than 7 points
\* LEADING.
C13_TrendCall ==
    (pc = "classified" /\ Correlated /\ report.best_lag > 0) =>
        IF Len(daily_history) >= 7
        THEN LET recent == MeanAt(daily_history, "avg_price", {1, 2, 3})
                 before == MeanAt(daily_history, "avg_price", {4, 5, 6})
             IN  report.signal = IF Less(before, recent) THEN "BULLISH" ELSE "BEARISH"
        ELSE report.signal = "LEADING"

\* 7 points, equal means: BEARISH
C13_Witness ==
    /\ pc = "classified"
    /\ Correlated
    /\ report.best_lag > 0
    /\ Len(daily_history) >= 7
    /\ MeanAt(daily_history, "avg_price", {1, 2, 3})
           = MeanAt(daily_history, "avg_price", {4, 5, 6})
    /\ report.signal = "BEARISH"

(***************************************************************************)
(* The database of src/app.py.  A table is the set of its rows; sqlite     *)
(* holds the write lock of a transaction from its first write to its       *)
(* commit, so that the transactions of the threads (scheduler, startup     *)
(* thread, requests) take effect one after the other.                      *)
(***************************************************************************)
\* a daily_index without the key on date
daily_index_no_key == FALSE

\* CREATE TABLE daily_index (date DATE PRIMARY KEY, ...)
daily_index_primary_key == TRUE

\* CREATE TABLE listings (id TEXT PRIMARY KEY, ...)
listings_primary_key == TRUE

\* INSERT OR REPLACE INTO table VALUES row
InsertOrReplace(table, key, row, pk) ==
    IF pk THEN {r \in table : r[key] # row[key]} \cup {row} ELSE table \cup {row}

\* INSERT OR IGNORE INTO table VALUES row
InsertOrIgnore(table, key, row, pk) ==
    IF pk /\ \E r \in table : r[key] = row[key] THEN table ELSE table \cup {row}

DailyRow(d, price, median, sold_price, total, sold, score, close, pct) ==
    [date |-> d, avg_price |-> price, median_price |-> median,
     avg_sold_price |-> sold_price, total_listings |-> total, sold_count |-> sold,
     avg_jensen_score |-> score, nvda_close |-> close, nvda_pct_change |-> pct]

\* the upsert without its WHERE nvda_close IS NULL
UpsertNvdaAlways(table, d, close, pct) ==
    IF daily_index_primary_key /\ \E r \in table : r.date = d
    THEN {IF r.date = d
          THEN [r EXCEPT !.nvda_close = close, !.nvda_pct_change = pct]
          ELSE r : r \in table}
    ELSE table \cup {DailyRow(d, None, None, None, None, None, None, close, pct)}

\* INSERT INTO daily_index (date, nvda_close, nvda_pct_change) VALUES (...)
\* ON CONFLICT(date) DO UPDATE SET nvda_close = excluded.nvda_close,
\* nvda_pct_change = excluded.nvda_pct_change WHERE nvda_close IS NULL
UpsertNvda(table, d, close, pct) ==
    IF daily_index_primary_key /\ \E r \in table : r.date = d
    THEN {IF r.date = d /\ r.nvda_close = None
          THEN [r EXCEPT !.nvda_close = close, !.nvda_pct_change = pct]
          ELSE r : r \in table}
    ELSE table \cup {DailyRow(d, None, None, None, None, None, None, close, pct)}

\* the rows of a table in the order of ORDER BY key DESC
RECURSIVE order_by_desc(_, _)
order_by_desc(table, key) ==
    IF table = {} THEN <<>>
    ELSE LET r == CHOOSE x \in table : \A y \in table : y[key] <= x[key]
         IN  <<r>> \o order_by_desc(table \ {r}, key)

\* SUM(column) and the number of non-NULL values of a column
RECURSIVE SqlSum(_, _)
SqlSum(rows, col) ==
    IF rows = {} THEN Zero
    ELSE LET r == CHOOSE x \in rows : TRUE
         IN  Add(IF r[col] = None THEN Zero ELSE r[col], SqlSum(rows \ {r}, col))

\* AVG(column): NULL over no value
SqlAvg(rows, col) ==
    LET some == {r \in rows : r[col] # None}
    IN  IF some = {} THEN None ELSE Div(SqlSum(some, col), Num(Cardinality(some)))

(***************************************************************************)
(* The outside world: the calendar, the marketplace, the stock quotes and  *)
(* the seed file.                                                          *)
(***************************************************************************)
Dates == 1..MaxDate

\* the closing price of NVDA on a date
NvdaClose(d) == IF d <= 2 THEN Num(10) ELSE Num(9 + d)

\* what a search of the marketplace can return: id, price, sold, sold_price
\* and the Jensen score of the title
Catalogue ==
    {[id |-> "a", price |-> Num(2), sold |-> TRUE, sold_price |-> Num(1), score |-> Num(3)],
     [id |-> "b", price |-> Num(0), sold |-> FALSE, sold_price |-> Num(0), score |-> Num(-1)]}

\* data/seed.json
SeedDailyIndex ==
    {DailyRow(1, Num(1), Num(1), None, Num(1), Num(0), Num(2), NvdaClose(1), Num(0)),
     DailyRow(2, None, None, None, None, None, None, None, None)}

SeedListings ==
    {[id |-> "a", price |-> Num(5), sold_price |-> None, is_sold |-> FALSE,
      jensen_score |-> Num(1), scraped_at |-> 1]}

(***************************************************************************)
(* get_nvda_data, backfill_nvda_history, run_scrape, load_seed_data        *)
(***************************************************************************)
\* (b - a) / a * 100
PctChange(a, b) == Mul(Div(Sub(b, a), a), Num(100))

\* get_nvda_data(): (None, None) for a failed fetch or fewer than 2 rows,
\* else the last close and its change against the close before
NvdaQuotes(d) ==
    {<<None, None>>}
    \cup (IF d >= 2 THEN {<<NvdaClose(d), PctChange(NvdaClose(d - 1), NvdaClose(d))>>} ELSE {})

\* hist['Pct_Chg'] of a date of hist: None for the first row
HistPct(hist, d) ==
    LET before == {e \in hist : e < d}
    IN  IF before = {} THEN None
        ELSE PctChange(NvdaClose(CHOOSE e \in before : \A g \in before : g <= e),
                       NvdaClose(d))

\* for date_ts, row in hist.iterrows(): the upserts in the order of the dates
RECURSIVE backfill_rows(_, _, _)
backfill_rows(table, hist, todo) ==
    IF todo = {} THEN table
    ELSE LET d == CHOOSE e \in todo : \A g \in todo : e <= g
         IN  backfill_rows(UpsertNvda(table, d, NvdaClose(d), HistPct(hist, d)),
                           hist, todo \ {d})

backfill_nvda_history(table, hist) ==
    IF hist = {} THEN table ELSE backfill_rows(table, hist, hist)

\* the listings after the INSERT OR REPLACE of every product
RECURSIVE store_products(_, _, _)
store_products(table, products, now) ==
    IF products = {} THEN table
    ELSE LET p == CHOOSE x \in products : TRUE
             row == [id |-> p.id, price |-> p.price,
                     sold_price |-> IF p.sold THEN p.sold_price ELSE None,
                     is_sold |-> p.sold, jensen_score |-> p.score, scraped_at |-> now]
         IN  store_products(InsertOrReplace(table, "id", row, listings_primary_key),
                            products \ {p}, now)

\* the daily_index after run_scrape, given the listings it has stored
scrape_daily_index(table, stored, quote, now) ==
    LET todays == {l \in stored : l.scraped_at = now}
        avg == SqlAvg(todays, "price")
        sold == IF todays = {} THEN None
                ELSE Num(Cardinality({l \in todays : l.is_sold}))
        row == DailyRow(now, avg, avg, SqlAvg(todays, "sold_price"),
                        Num(Cardinality(todays)), sold,
                        SqlAvg(todays, "jensen_score"), quote[1], quote[2])
    IN  IF Truthy(avg)
        THEN InsertOrReplace(table, "date", row, daily_index_primary_key)
        ELSE table

RECURSIVE insert_all_or_ignore(_, _, _, _)
insert_all_or_ignore(table, key, rows, pk) ==
    IF rows = {} THEN table
    ELSE LET r == CHOOSE x \in rows : TRUE
         IN  insert_all_or_ignore(InsertOrIgnore(table, key, r, pk), key, rows \ {r}, pk)

\* load_seed_data: FALSE when it returns before the inserts
seed_loads(daily, listed) == Cardinality(daily) = 0

(***************************************************************************)
(* get_index: the response of /api/index                                   *)
(***************************************************************************)
\* round(x, ndigits): to the nearest, a tie to the even digit
Round(x, ndigits) ==
    LET scale == 10 ^ ndigits
        q == (x[1] * scale) \div x[2]
        r == (x[1] * scale) % x[2]
        up == 2 * r > x[2] \/ (2 * r = x[2] /\ q % 2 = 1)
    IN  Frac(IF up THEN q + 1 ELSE q, scale)

\* round(calc_pop(...), 2) if calc_pop(...) is not None else None
pop_cell(data, field, n) ==
    LET p == calc_pop(data, field, n)
    IN  IF p # None THEN Round(p, 2) ELSE None

\* one dictionary of alt_data_metrics, without its highlight flag
metric(name, data, field, ndigits) ==
    [name |-> name,
     trailing91 |-> Round(calc_trailing(data, field, 91), ndigits),
     trailing28 |-> Round(calc_trailing(data, field, 28), ndigits),
     trailing7 |-> Round(calc_trailing(data, field, 7), ndigits),
     pop91 |-> pop_cell(data, field, 91),
     pop28 |-> pop_cell(data, field, 28),
     pop7 |-> pop_cell(data, field, 7)]

\* a table that highlights two rows
metrics_table_two_highlights(data) ==
    << metric("Avg Jacket Price", data, "avg_price", 2) @@ [highlighted |-> TRUE],
       metric("Jensen Score (Avg)", data, "avg_jensen_score", 2) @@ [highlighted |-> TRUE],
       metric("Daily Listings", data, "total_listings", 0),
       metric("Items Sold", data, "sold_count", 0) >>

\* "alt_data_metrics": [...]
metrics_table(data) ==
    << metric("Avg Jacket Price", data, "avg_price", 2) @@ [highlighted |-> TRUE],
       metric("Jensen Score (Avg)", data, "avg_jensen_score", 2),
       metric("Daily Listings", data, "total_listings", 0),
       metric("Items Sold", data, "sold_count", 0) >>

\* an entry that reports 0 where no change can be computed
weekly_entry_zero_jacket(data, i) ==
    LET d == data[i]
    IN  [week |-> d.date,
         jacket |-> IF i < Len(data) /\ d.avg_price # None /\ Truthy(data[i + 1].avg_price)
                    THEN Round(PctChange(data[i + 1].avg_price, d.avg_price), 2)
                    ELSE Zero,
         nvda |-> IF d.nvda_pct_change # None THEN d.nvda_pct_change ELSE Zero,
         jensen |-> d.avg_jensen_score,
         volume |-> d.total_listings,
         sold |-> d.sold_count]

\* the dictionary of weekly_data for d = data[i]
weekly_entry(data, i) ==
    LET d == data[i]
    IN  [week |-> d.date,
         jacket |-> IF i < Len(data) /\ d.avg_price # None /\ Truthy(data[i + 1].avg_price)
                    THEN Round(PctChange(data[i + 1].avg_price, d.avg_price), 2)
                    ELSE None,
         nvda |-> IF d.nvda_pct_change # None THEN d.nvda_pct_change ELSE Zero,
         jensen |-> d.avg_jensen_score,
         volume |-> d.total_listings,
         sold |-> d.sold_count]

\* [... for i, d in enumerate(daily_history)][::-1]
weekly_rows(data) == [i \in 1..Len(data) |-> weekly_entry(data, Len(data) - i + 1)]

\* SELECT * FROM daily_index ORDER BY date DESC LIMIT 730
select_daily_history(table) == Take(order_by_desc(table, "date"), 730)

(***************************************************************************)
(* The service: the database file outlives the process, init_db runs at    *)
(* every start of the process and in the recovery of run_startup_tasks,    *)
(* run_scrape runs from the scheduler, the startup thread and /api/scrape, *)
(* backfill_nvda_history from the startup thread, get_index on a request.  *)
(* get_index reads daily_index in one SELECT: a transaction that commits   *)
(* while it computes cannot change what it has read, and is taken before   *)
(* the SELECT or after the return (pc = "idle").                           *)
(***************************************************************************)
\* what the operations on the database never touch
others == <<days, trailing, pop, regime, report, correlation_7d, server>>

\* the locals of get_index that make its response
response == <<pc, daily_history, alt_data_metrics, weekly_data>>

InitDB ==
    /\ pc = "idle"
    /\ daily_history = <<>>
    /\ days = 7
    /\ trailing = NotRun
    /\ pop = NotRun
    /\ regime = NotRun
    /\ report = NotRun
    /\ correlation_7d = NotRun
    /\ EmptyDb

\* load_seed_data up to its check, SELECT COUNT(*) FROM daily_index, and its
\* return when there is no seed file or a row in daily_index
LoadSeedCheck ==
    /\ pc = "idle"
    /\ seed_pc = "idle"
    /\ \E seed_path_exists \in BOOLEAN :
          seed_pc' = IF seed_path_exists /\ seed_loads(daily_index, listings)
                     THEN "insert" ELSE "idle"
    /\ UNCHANGED <<daily_index, listings, today, response, others>>

\* load_seed_data from its first INSERT OR IGNORE to its commit
LoadSeedInsert ==
    /\ pc = "idle"
    /\ seed_pc = "insert"
    /\ daily_index' = insert_all_or_ignore(daily_index, "date", SeedDailyIndex,
                                           daily_index_primary_key)
    /\ listings' = insert_all_or_ignore(listings, "id", SeedListings, listings_primary_key)
    /\ seed_pc' = "idle"
    /\ UNCHANGED <<today, response, others>>

\* run_scrape: one transaction, from the first INSERT OR REPLACE to the commit
RunScrape ==
    /\ pc = "idle"
    /\ \E products \in SUBSET Catalogue : \E quote \in NvdaQuotes(today) :
          LET stored == store_products(listings, products, today)
          IN  /\ listings' = stored
              /\ daily_index' = scrape_daily_index(daily_index, stored, quote, today)
    /\ UNCHANGED <<today, seed_pc, response, others>>

\* backfill_nvda_history over the history first..today (empty: first > today)
BackfillNvdaHistory ==
    /\ pc = "idle"
    /\ UNCHANGED <<listings, today, seed_pc, response, others>>
    /\ \E first \in 1..(today + 1) :
          daily_index' = backfill_nvda_history(daily_index, first..today)

\* get_index up to its return
GetIndex ==
    /\ pc = "idle"
    /\ daily_history' = select_daily_history(daily_index)
    /\ alt_data_metrics' = metrics_table(daily_history')
    /\ weekly_data' = weekly_rows(daily_history')
    /\ pc' = "get_index"
    /\ UNCHANGED <<daily_index, listings, today, seed_pc, others>>

\* return jsonify(...)
Return ==
    /\ pc = "get_index"
    /\ pc' = "idle"
    /\ daily_history' = <<>>
    /\ alt_data_metrics' = <<>>
    /\ weekly_data' = <<>>
    /\ UNCHANGED <<daily_index, listings, today, seed_pc, others>>

\* midnight
NextDay ==
    /\ pc = "idle"
    /\ today < MaxDate
    /\ today' = today + 1
    /\ UNCHANGED <<daily_index, listings, seed_pc, response, others>>

NextDB ==
    \/ LoadSeedCheck
    \/ LoadSeedInsert
    \/ RunScrape
    \/ BackfillNvdaHistory
    \/ GetIndex
    \/ Return
    \/ NextDay

SpecDB == InitDB /\ [][NextDB]_vars

TypeOKDB ==
    /\ today \in Dates
    /\ seed_pc \in {"idle", "insert"}
    /\ \A r \in daily_index : r.date \in Dates
    /\ \A l \in listings : l.id \in {"a", "b"}

(***************************************************************************)
(* C14                                                                     *)
(***************************************************************************)
\* the response of get_index is there to see
Responded == pc = "get_index"

\* C14: whatever run_scrape, backfill_nvda_history and load_seed_data have
\* done, in whatever order, daily_index holds at most one row of a date, and
\* the series get_index hands to the metrics functions holds every row of
\* the table once, strictly descending by date, the latest date first.
C14_SeriesDescending ==
    /\ \A r, q \in daily_index : r.date = q.date => r = q
    /\ Responded =>
          /\ \A i, j \in DOMAIN daily_history :
                i < j => daily_history[i].date > daily_history[j].date
          /\ {daily_history[i] : i \in DOMAIN daily_history} = daily_index
          /\ \A r \in daily_index : r.date <= daily_history[1].date

\* a series of three dates or more: one written by the scraper on a date the
\* backfill or the seed has written too, and one without jacket fields
C14_Witness ==
    /\ Responded
    /\ Len(daily_history) >= 3
    /\ \E i \in DOMAIN daily_history :
          daily_history[i].avg_price # None /\ daily_history[i].nvda_pct_change = None
    /\ \E i \in DOMAIN daily_history :
          daily_history[i].avg_price = None /\ daily_history[i].nvda_close # None

(***************************************************************************)
(* C16                                                                     *)
(***************************************************************************)
\* the positions of a set whose value is 0
ZeroAt(data, field, S) == {i \in S : data[i][field] = Zero}

\* C16: the trailing mean divides the sum of the non-zero values of its
\* window by the number of all its present values, the zeros counted and the
\* missing ones not; and a point-to-point change whose latest present value
\* is 0 is -100 percent: the 0 is the latest observation, not skipped.
C16_ZeroIsAnObservation ==
    /\ TrailingRun =>
          LET W == PresentRecords(daily_history, "avg_price", 0, days)
              Z == ZeroAt(daily_history, "avg_price", W)
              t == SumAt(daily_history, "avg_price", W \ Z)
          IN  W # {} => trailing = Frac(t[1], t[2] * (Cardinality(W \ Z) + Cardinality(Z)))
    /\ PopRun =>
          LET P == Present(daily_history, "avg_price")
          IN  (/\ Cardinality(P) >= 2
               /\ Cardinality(P) < 2 * days
               /\ daily_history[Newest(P)].avg_price = Zero
               /\ daily_history[Oldest(P)].avg_price # Zero) => pop = Num(-100)

\* a window with a zero, a non-zero value and a missing record before them,
\* and a latest present value of 0 after a missing newest record
C16_Witness ==
    /\ PopRun
    /\ daily_history # <<>>
    /\ daily_history[1].avg_price = None
    /\ LET W == PresentRecords(daily_history, "avg_price", 0, days)
           Z == ZeroAt(daily_history, "avg_price", W)
       IN  Z # {} /\ W \ Z # {} /\ trailing # Zero
    /\ LET P == Present(daily_history, "avg_price")
       IN  daily_history[Newest(P)].avg_price = Zero /\ pop = Num(-100)

(***************************************************************************)
(* C17                                                                     *)
(***************************************************************************)
\* C17 as stated: the entry of weekly_data of a record without
\* nvda_pct_change reports null for nvda.
C17_MissingReferenceIsNull ==
    Responded =>
        \A i \in DOMAIN weekly_data : \A r \in daily_index :
            (r.date = weekly_data[i].week /\ r.nvda_pct_change = None)
                => weekly_data[i].nvda = None

(***************************************************************************)
(* C18                                                                     *)
(***************************************************************************)
\* the rows of a metrics table that carry the highlight flag
Highlighted(table) ==
    {i \in DOMAIN table : "highlighted" \in DOMAIN table[i] /\ table[i].highlighted}

\* C18: the metrics table of a response of get_index has four rows, and at
\* most one of them carries the highlight flag.
C18_OneHighlight ==
    Responded =>
        /\ Len(alt_data_metrics) = 4
        /\ Cardinality(Highlighted(alt_data_metrics)) <= 1

\* a table over a series with data, one row highlighted
C18_Witness ==
    /\ Responded
    /\ Len(daily_history) >= 2
    /\ Highlighted(alt_data_metrics) = {1}
    /\ alt_data_metrics[1].trailing7 # Zero
    /\ alt_data_metrics[1].pop7 # None

(***************************************************************************)
(* C19                                                                     *)
(***************************************************************************)
\* C19 as stated: a call of load_seed_data that finds a row in daily_index
\* or in listings returns without an insert, and the inserts of a call
\* leave every row that exists as it is.
C19_OnlyIntoEmptyDatabase ==
    [][/\ (LoadSeedCheck /\ (daily_index # {} \/ listings # {})) => seed_pc' = "idle"
       /\ LoadSeedInsert =>
             /\ \A r \in daily_index : r \in daily_index'
             /\ \A l \in listings : l \in listings']_vars

(***************************************************************************)
(* C20                                                                     *)
(***************************************************************************)
JacketFields ==
    {"avg_price", "median_price", "avg_sold_price", "total_listings", "sold_count",
     "avg_jensen_score"}

\* C20: backfill_nvda_history leaves every row with an nvda_close as it is,
\* removes no row, keeps the jacket fields of every row it finds, and gives
\* the rows it creates no jacket field.
C20_BackfillFrame ==
    [][BackfillNvdaHistory =>
          /\ \A r \in daily_index : r.nvda_close # None => r \in daily_index'
          /\ \A q \in daily_index : \E r \in daily_index' : r.date = q.date
          /\ \A r \in daily_index' :
                IF \E q \in daily_index : q.date = r.date
                THEN \E q \in daily_index :
                        q.date = r.date /\ \A f \in JacketFields : r[f] = q[f]
                ELSE \A f \in JacketFields : r[f] = None]_vars

\* the backfill has created a row, has completed a scraped row that had no
\* quote, and a scraped row with a quote is in the table
C20_Witness ==
    /\ \E r \in daily_index : r.avg_price = None /\ r.nvda_close # None
    /\ \E r \in daily_index :
          r.avg_price # None /\ r.nvda_close # None /\ r.nvda_pct_change = None
    /\ \E r \in daily_index :
          r.avg_price # None /\ r.date >= 2 /\ r.nvda_pct_change # None

(***************************************************************************)
(* run_scrape with its failures, the simulated backfill of src/backfill.py *)
(* and the reply of /api/backfill.                                         *)
(***************************************************************************)
\* where run_scrape raises: nowhere, in GrailedAPIClient() before any write,
\* in the loop over the products after their inserts, or at the insert into
\* daily_index
Raises == {"none", "client", "store", "index"}

Tables(daily, listed) == [daily_index |-> daily, listings |-> listed]

\* a connection that commits every statement
rollback_keeps_writes(committed, pending) == pending

\* a connection dropped without commit: the writes of its transaction are lost
rollback(committed, pending) == committed

\* run_scrape: the two tables it leaves and what it returns
run_scrape(daily, listed, products, quote, now, raises) ==
    LET stored == store_products(listed, products, now)
        index == scrape_daily_index(daily, stored, quote, now)
        before == Tables(daily, listed)
        pending == IF raises = "client" THEN before
                   ELSE IF raises = "store" THEN Tables(daily, stored)
                   ELSE Tables(index, stored)
    IN  IF raises = "none"
        THEN [tables |-> pending, returned |-> <<"True">>]
        ELSE [tables |-> rollback(before, pending), returned |-> <<"False", raises>>]

\* the row backfill_index writes for a date of hist; u stands for the draws of
\* random: uniform(-1, 1) = u, uniform(-0.2, 0.2) = u / 5, randint(-10, 10) =
\* 10 u, randint(-5, 5) = 5 u.  The first date has no previous close: its
\* nvda_pct is NaN, and so is all that is computed from it; sqlite stores NULL.
simulated_row(base, score, n, hist, d, u) ==
    LET before == {e \in hist : e < d}
        nvda_pct == PctChange(NvdaClose(CHOOSE e \in before : \A g \in before : g <= e),
                             NvdaClose(d))
        change == Add(Mul(nvda_pct, Frac(7, 10)), Num(u))
        price == Mul(base, Add(Num(1), Div(change, Num(100))))
        simulated_score == Add(Add(score, Mul(nvda_pct, Frac(5, 100))), Frac(u, 5))
    IN  IF before = {}
        THEN DailyRow(d, None, None, None, Num(n + 10 * u), Num((n \div 5) + 5 * u), None,
                      Round(NvdaClose(d), 2), None)
        ELSE DailyRow(d, Round(price, 2), Round(Mul(price, Frac(95, 100)), 2),
                      Round(Mul(price, Frac(9, 10)), 2), Num(n + 10 * u),
                      Num((n \div 5) + 5 * u), Round(simulated_score, 2),
                      Round(NvdaClose(d), 2), Round(nvda_pct, 2))

RECURSIVE simulate_rows(_, _, _, _, _, _, _)
simulate_rows(table, base, score, n, hist, todo, u) ==
    IF todo = {} THEN table
    ELSE LET d == CHOOSE e \in todo : \A g \in todo : e <= g
         IN  simulate_rows(InsertOrReplace(table, "date", simulated_row(base, score, n, hist, d, u),
                                           daily_index_primary_key),
                           base, score, n, hist, todo \ {d}, u)

\* backfill_index after its init_db and its run_scrape: the daily_index it leaves
backfill_index(daily, listed, hist, u) ==
    LET base == SqlAvg(listed, "price")
    IN  IF ~Truthy(base) THEN daily
        ELSE simulate_rows(daily, base, SqlAvg(listed, "jensen_score"), Cardinality(listed),
                           hist, hist, u)

\* a route that runs the simulated backfill
trigger_backfill_simulated(daily, listed, hist, u) ==
    Tables(backfill_index(daily, listed, hist, u), listed)

\* trigger_backfill: the tables after the request
trigger_backfill(daily, listed, hist, u) == Tables(daily, listed)

(***************************************************************************)
(* The server process: the module is imported (init_db has run), the       *)
(* startup thread runs run_startup_tasks, the scheduler and /api/scrape    *)
(* run run_scrape, /api/backfill replies.  The database file is the one    *)
(* earlier runs have left.                                                 *)
(***************************************************************************)
\* if history_count < 90
SparseHistory == 90

\* a daily_index of the n dates 1..n, as scrapes with a quote have left it
History(n) ==
    {DailyRow(d, Num(2), Num(2), Num(1), Num(1), Num(1), Num(3), NvdaClose(d), Num(0)) :
        d \in 1..n}

\* the tables the process finds
FoundDailyIndex == {{}, History(SparseHistory - 1), History(SparseHistory)}

FoundListings == {{}, SeedListings}

\* the histories yfinance returns: empty, or the dates first..today
Histories(now) == {first..now : first \in (now - 1)..(now + 1)}

InitServer ==
    /\ pc = "import"
    /\ daily_history = <<>>
    /\ days = 7
    /\ trailing = NotRun
    /\ pop = NotRun
    /\ regime = NotRun
    /\ report = NotRun
    /\ correlation_7d = NotRun
    /\ daily_index \in FoundDailyIndex
    /\ listings \in FoundListings
    /\ today = SparseHistory + 1
    /\ seed_pc = "idle"
    /\ alt_data_metrics = <<>>
    /\ weekly_data = <<>>
    /\ NoServer

\* what no operation of the server touches
frame == <<pc, daily_history, days, trailing, pop, regime, report, correlation_7d,
           today, seed_pc, alt_data_metrics, weekly_data>>

\* a call of run_scrape; one that raises is rolled back whatever it has found,
\* and is drawn with one find only.  The NVDA fetch of a call that commits
\* succeeds here (SpecDB has the calls whose fetch fails).
CallRunScrape ==
    \E raises \in Raises :
    \E products \in IF raises = "none" THEN SUBSET Catalogue
                     ELSE IF raises = "client" THEN {{}} ELSE {Catalogue} :
    \E quote \in IF raises = "none" THEN NvdaQuotes(today) \ {<<None, None>>}
                  ELSE {<<None, None>>} :
        LET r == run_scrape(daily_index, listings, products, quote, today, raises)
        IN  /\ daily_index' = r.tables.daily_index
            /\ listings' = r.tables.listings
            /\ returned' = r.returned

\* a call of backfill_nvda_history
CallBackfillNvdaHistory ==
    \E hist \in Histories(today) :
        daily_index' = backfill_nvda_history(daily_index, hist)

\* a step without a call of run_scrape and without a reply of a route
NoCall ==
    /\ returned' = NotRun
    /\ status' = "none"

\* if count == 0
initial_scrape(n) == n = 0

\* a test that counts the rows again after the scrape
history_is_sparse_now(n, daily) == Cardinality(daily) < SparseHistory

\* if history_count < 90
history_is_sparse(n, daily) == n < SparseHistory

\* run_startup_tasks: the two SELECT COUNT(*), or the exception of the second
\* of them (count is read, history_count is not)
StartupCounts ==
    /\ startup_pc = "sleep"
    /\ \/ /\ count' = Cardinality(listings)
          /\ history_count' = Cardinality(daily_index)
          /\ startup_pc' = "counted"
       \/ /\ startup_pc' = "except"
          /\ count' = Cardinality(listings)
          /\ UNCHANGED history_count
    /\ NoCall
    /\ UNCHANGED <<daily_index, listings, startup_log, frame>>

\* run_startup_tasks: if count == 0: run_scrape()
StartupScrape ==
    /\ startup_pc = "counted"
    /\ IF initial_scrape(count)
       THEN /\ CallRunScrape
            /\ startup_log' = Append(startup_log, "run_scrape")
       ELSE /\ returned' = NotRun
            /\ UNCHANGED <<daily_index, listings, startup_log>>
    /\ status' = "none"
    /\ startup_pc' = "scraped"
    /\ UNCHANGED <<count, history_count, frame>>

\* run_startup_tasks: if history_count < 90: backfill_nvda_history()
StartupBackfill ==
    /\ startup_pc = "scraped"
    /\ IF history_is_sparse(history_count, daily_index)
       THEN /\ CallBackfillNvdaHistory
            /\ startup_log' = Append(startup_log, "backfill_nvda_history")
       ELSE UNCHANGED <<daily_index, startup_log>>
    /\ NoCall
    /\ startup_pc' = "done"
    /\ UNCHANGED <<listings, count, history_count, frame>>

\* run_startup_tasks, except: init_db()
ExceptInitDb ==
    /\ startup_pc = "except"
    /\ \E seed_path_exists \in BOOLEAN :
          IF seed_path_exists /\ seed_loads(daily_index, listings)
          THEN /\ daily_index' = insert_all_or_ignore(daily_index, "date", SeedDailyIndex,
                                                      daily_index_primary_key)
               /\ listings' = insert_all_or_ignore(listings, "id", SeedListings,
                                                   listings_primary_key)
          ELSE UNCHANGED <<daily_index, listings>>
    /\ startup_log' = Append(startup_log, "init_db")
    /\ NoCall
    /\ startup_pc' = "except init_db"
    /\ UNCHANGED <<count, history_count, frame>>

\* run_startup_tasks, except: run_scrape()
ExceptScrape ==
    /\ startup_pc = "except init_db"
    /\ CallRunScrape
    /\ startup_log' = Append(startup_log, "run_scrape")
    /\ status' = "none"
    /\ startup_pc' = "except run_scrape"
    /\ UNCHANGED <<count, history_count, frame>>

\* run_startup_tasks, except: backfill_nvda_history()
ExceptBackfill ==
    /\ startup_pc = "except run_scrape"
    /\ CallBackfillNvdaHistory
    /\ startup_log' = Append(startup_log, "backfill_nvda_history")
    /\ NoCall
    /\ startup_pc' = "done"
    /\ UNCHANGED <<listings, count, history_count, frame>>

\* the job of the scheduler
SchedulerJob ==
    /\ CallRunScrape
    /\ status' = "none"
    /\ UNCHANGED <<startup_pc, count, history_count, startup_log, frame>>

\* GET /api/scrape
TriggerScrape ==
    /\ CallRunScrape
    /\ status' = IF returned'[1] = "True" THEN "success" ELSE "error"
    /\ UNCHANGED <<startup_pc, count, history_count, startup_log, frame>>

\* GET /api/backfill
TriggerBackfill ==
    /\ \E hist \in {(today - 1)..today} : \E u \in {-1, 1} :
          LET t == trigger_backfill(daily_index, listings, hist, u)
          IN  daily_index' = t.daily_index /\ listings' = t.listings
    /\ returned' = NotRun
    /\ status' = "disabled"
    /\ UNCHANGED <<startup_pc, count, history_count, startup_log, frame>>

NextServer ==
    \/ StartupCounts
    \/ StartupScrape
    \/ StartupBackfill
    \/ ExceptInitDb
    \/ ExceptScrape
    \/ ExceptBackfill
    \/ SchedulerJob
    \/ TriggerScrape
    \/ TriggerBackfill

SpecServer == InitServer /\ [][NextServer]_vars

TypeOKServer ==
    /\ count \in {Unread, 0, 1, 2}
    /\ startup_pc \in {"sleep", "counted", "scraped", "except", "except init_db",
                        "except run_scrape", "done"}
    /\ returned \in {NotRun, <<"True">>} \cup {<<"False", e>> : e \in Raises \ {"none"}}
    /\ status \in {"none", "success", "error", "disabled"}

(***************************************************************************)
(* get_index over a database that load_seed_data has filled from a seed    *)
(* file: the file gives every date an avg_price or none.                   *)
(***************************************************************************)
SeedPrices == {None, Num(-1), Num(0), Num(1), Num(3)}

\* the daily_index rows of a seed file of n dates with the prices f
SeedFile(n, f) ==
    {DailyRow(d, f[d], f[d], None, Num(1), Num(0), Num(1), None, None) : d \in 1..n}

\* load_seed_data, from its check to its commit, with a seed file without listings
LoadSeedFile ==
    /\ pc = "idle"
    /\ seed_loads(daily_index, listings)
    /\ \E n \in 1..MaxLen : \E f \in [1..n -> SeedPrices] :
          daily_index' = insert_all_or_ignore(daily_index, "date", SeedFile(n, f),
                                             daily_index_primary_key)
    /\ UNCHANGED <<listings, today, seed_pc, response, others>>

NextWeekly == LoadSeedFile \/ GetIndex \/ Return

SpecWeekly == InitDB /\ [][NextWeekly]_vars

(***************************************************************************)
(* C21                                                                     *)
(***************************************************************************)
\* C21 as stated: no step of the service takes the nvda_close away from a
\* date that has one.
C21_CloseNeverLost ==
    [][\A r \in daily_index :
          r.nvda_close # None =>
              \E q \in daily_index' : q.date = r.date /\ q.nvda_close # None]_vars

(***************************************************************************)
(* C22                                                                     *)
(***************************************************************************)
\* C22: every call of run_scrape returns True or False, /api/scrape replies
\* success for True and error for False, and a call that returns False
\* leaves listings and daily_index as they were.
C22_FalseLeavesTables ==
    [][returned' # NotRun =>
          /\ returned'[1] \in {"True", "False"}
          /\ status' # "none" => (status' = "success" <=> returned'[1] = "True")
          /\ returned'[1] = "False" => UNCHANGED <<daily_index, listings>>]_vars

\* run_scrape has raised after the inserts of its products, has returned
\* False, and /api/scrape has replied error
C22_Witness ==
    /\ returned = <<"False", "store">>
    /\ status = "error"
    /\ daily_index # {}

(***************************************************************************)
(* C23                                                                     *)
(***************************************************************************)
Called(f) == \E i \in DOMAIN startup_log : startup_log[i] = f

\* the calls of run_startup_tasks after it has read count n and history count h
CallsFor(n, h) ==
    (IF n = 0 THEN <<"run_scrape">> ELSE <<>>)
        \o (IF h < SparseHistory THEN <<"backfill_nvda_history">> ELSE <<>>)

\* C23 as stated: a finished run_startup_tasks has called run_scrape exactly
\* when the count of listings it read was 0, backfill_nvda_history exactly
\* when the count of daily_index it read was below 90, and the scrape first.
C23_ExactlyWhen ==
    startup_pc = "done" =>
        /\ count # Unread => (Called("run_scrape") <=> count = 0)
        /\ history_count # Unread =>
              (Called("backfill_nvda_history") <=> history_count < SparseHistory)
        /\ \A i, j \in DOMAIN startup_log :
              (startup_log[i] = "run_scrape" /\ startup_log[j] = "backfill_nvda_history")
                  => i < j

\* C23 amended: when run_startup_tasks has read both counts, it calls
\* run_scrape exactly when the count of listings was 0 and then
\* backfill_nvda_history exactly when the count of daily_index, read before
\* the scrape, was below 90; when reading the counts raises, it calls init_db,
\* run_scrape and backfill_nvda_history in that order, whatever the counts.
C23_CountsOrRecovery ==
    startup_pc = "done" =>
        IF Called("init_db")
        THEN /\ history_count = Unread
             /\ startup_log = <<"init_db", "run_scrape", "backfill_nvda_history">>
        ELSE /\ count # Unread
             /\ history_count # Unread
             /\ startup_log = CallsFor(count, history_count)

\* both calls made, the scrape first: the history was one row short of 90 when
\* counted and is not any more when the backfill starts
C23_Witness ==
    /\ startup_pc = "done"
    /\ startup_log = <<"run_scrape", "backfill_nvda_history">>
    /\ history_count = SparseHistory - 1
    /\ Cardinality(daily_index) >= SparseHistory

(***************************************************************************)
(* C25                                                                     *)
(***************************************************************************)
\* C25: a request to /api/backfill is answered "disabled" and leaves every row
\* of listings and daily_index as it was, and no step of the server writes a
\* row of the simulated backfill (whose median_price is not its avg_price).
C25_BackfillRouteDisabled ==
    [][/\ status' = "disabled" => UNCHANGED <<daily_index, listings>>
       /\ \A r \in daily_index' : r.median_price = r.avg_price]_vars

\* /api/backfill has replied while listings held a priced listing (a baseline
\* for the simulation) and daily_index held rows
C25_Witness ==
    /\ status = "disabled"
    /\ \E l \in listings : Truthy(l.price)
    /\ daily_index # {}

(***************************************************************************)
(* C24                                                                     *)
(***************************************************************************)
\* v is x rounded to hundredths: a multiple of 1/100 at most 1/200 from x
Hundredths(v, x) ==
    /\ (100 * v[1]) % v[2] = 0
    /\ 200 * Abs(v[1] * x[2] - x[1] * v[2]) <= v[2] * x[2]

\* C24: weekly_data has one entry per record of the series, oldest date
\* first; the jacket change of an entry is null exactly when its record is
\* the oldest of the series, or has no avg_price, or the next-older record
\* has no avg_price or an avg_price of 0; otherwise it is the percentage
\* change against the next-older record, in hundredths of a percent.
C24_WeeklyJacket ==
    Responded =>
        /\ Len(weekly_data) = Len(daily_history)
        /\ \A i, j \in DOMAIN weekly_data : i < j => weekly_data[i].week < weekly_data[j].week
        /\ \A i \in DOMAIN weekly_data :
              LET k == Len(daily_history) - i + 1
                  d == daily_history[k]
                  null == \/ k = Len(daily_history)
                          \/ d.avg_price = None
                          \/ daily_history[k + 1].avg_price \in {None, Zero}
              IN  /\ weekly_data[i].week = d.date
                  /\ IF null THEN weekly_data[i].jacket = None
                     ELSE /\ weekly_data[i].jacket # None
                          /\ Hundredths(weekly_data[i].jacket,
                                        Percent(d.avg_price, daily_history[k + 1].avg_price))

\* a series with a change that is rounded, a record without avg_price and a
\* record after an avg_price of 0
C24_Witness ==
    /\ Responded
    /\ Len(weekly_data) >= 4
    /\ \E i \in DOMAIN weekly_data : weekly_data[i].jacket = Frac(-6667, 100)
    /\ \E k \in DOMAIN daily_history : daily_history[k].avg_price = None
    /\ \E k \in DOMAIN daily_history :
          /\ k < Len(daily_history)
          /\ daily_history[k].avg_price # None
          /\ daily_history[k + 1].avg_price = Zero

====
